---- MODULE Spec2Model ----
(***************************************************************************)
(* The transcoder.  Tower server: the task dispatcher                      *)
(* (Server.startForwardingRequests) and the per-task state machine         *)
(* (Server.manageTask), with the collaborators they call (the persistent   *)
(* Task Queue, the RPC fabric and the Library), and the server's shutdown. *)
(* Library and its admin surface, Conductor, and playback client, each     *)
(* under a specification of its own.                                       *)
(***************************************************************************)
EXTENDS Integers, Sequences, FiniteSets, TLC

\* ------------------------------------------------------------------ bounds
MaxTasks == 2
MaxRequests == 2
MaxAccess == 2
MaxEvents == 2
MaxDownloads == 2
MaxFiles == 2

SDHashes == {"h1", "h2"}
Workers == {"w1", "w2"}
TIDs == 1..MaxTasks

\* ------------------------------------------------------------- data model
\* MsgTranscodingTask{URL, SDHash, TID}; the URL is copied from the request
\* together with the SDHash and is determined by it, so it is not carried.
NilPayload == [SDHash |-> "", TID |-> 0]
MsgTranscodingTask(sd, tid) == [SDHash |-> sd, TID |-> tid]

\* a row of the tasks table; TID = 0 stands for "no row"
NoRow == [TID |-> 0, WorkerID |-> "", Payload |-> NilPayload]
\* a row of the videos table; TID = 0 stands for "no row"
NoVideo == [TID |-> 0, SDHash |-> "", TranscodedBy |-> ""]
\* no ActiveTask held by the dispatcher
NoTask == [id |-> 0, workerID |-> "", restored |-> FALSE, exPayload |-> NilPayload]

VARIABLES
  tasks,          \* Task Queue: SDHash -> row (persistent)
  videos,         \* Library: SDHash -> manifest of the Video row (persistent)
  nextTid,        \* next task id the fabric assigns
  activeTaskChan, \* the channel returned by startConsumingWorkRequests
  dpc,            \* position of the dispatcher goroutine
  cur,            \* the ActiveTask the dispatcher is serving
  err,            \* the dispatcher's err: outcome of its last GetTaskBySDHash
  stopped,        \* stopChan is closed
  sm,             \* per task, the position of its manageTask goroutine
  running,        \* TranscodingRequestsRunning{worker}
  errs,           \* TranscodingRequestsErrors{worker}
  done,           \* TranscodingRequestsDone{worker}
  reqLog,         \* history: every request received from `requests` and its fate
  atLog,          \* history: per task, SendPayload calls and spawns (this run)
  dispatched,     \* history: per task, the SDHash of the payload it was sent
  live,           \* history: the task has a payload and no terminal event yet
  addCalls        \* history: per task, AddRemoteStream invocations (this run)

vars == <<tasks, videos, nextTid, activeTaskChan, dpc, cur, err,
          stopped, sm, running, errs, done, reqLog, atLog, dispatched, live,
          addCalls>>

persistent == <<tasks, videos, nextTid>>
metricsV == <<running, errs, done>>
dispV == <<activeTaskChan, dpc, cur, err>>
histV == <<reqLog, atLog, dispatched, live, addCalls>>

\* The Library on its own (its catalog database and the calls made on it)
VARIABLES
  videoTable,     \* rows of the videos table
  gets,           \* history: per SDHash, the successful GetVideo calls so far
  added,          \* history: per SDHash, the stream last added with success
  libRet          \* the last library call and what it returned

libV == <<videoTable, gets, added, libRet>>

\* The admin HTTP surface of the Library
VARIABLES
  channelTable,   \* rows of the channels table, in insertion order
  adminResp       \* the last POST /api/v1/channel and its response

adminV == <<channelTable, adminResp>>

\* One manageTask goroutine watched against the clock
VARIABLES
  loopSt,         \* position of the goroutine: "running" in its select, or "exited"
  silence,        \* seconds since the pending time.After was created
  progressSeen,   \* history: progress events received
  warnings,       \* history: "timed out waiting for worker status" warnings logged
  taskMetrics     \* what the goroutine did to its worker's gauge and counters

timerV == <<loopSt, silence, progressSeen, warnings, taskMetrics>>

\* The Conductor, with the task queue and the result list it shares with the
\* workers; its library is videoTable
VARIABLES
  asynqQ,         \* task queue: per SDHash, "none", "pending" or "active"
  results,        \* the list QueueTranscodingResults
  cpc,            \* position of the goroutine that runs PutLoad on each tick
  left,           \* DispatchNextTask calls the running PutLoad has yet to make
  dispErr,        \* what the last DispatchNextTask call returned
  putErr,         \* what the last PutLoad call returned
  rpc,            \* position of the goroutine that runs ProcessNextResult
  cStopped,       \* Stop was called: stopChan and the clients are closed
  condLog,        \* history: every request received from `incoming` and its fate
  popped,         \* history: the SDHashes of the results taken off the list
  published,      \* the counter RequestsPublished
  cycle           \* history: spares and tasks enqueued of the last PutLoad call

condV == <<asynqQ, results, cpc, left, dispErr, putErr, rpc, cStopped, condLog, popped,
           published, cycle>>

\* Shutdown of the tower server: stopChan, who closes it and who waits on it
VARIABLES
  stopCloses,     \* close(s.stopChan) calls executed so far
  panicked,       \* a goroutine panicked: the process is gone
  listenSt,       \* goroutine of ListenAndServe: "serving", "failed" or "exited"
  httpSt,         \* goroutine that waits for stopChan to call Shutdown: "waiting" or "done"
  stopAllSt,      \* the caller of StopAll: "idle", "closed" or "done"
  watchSt         \* per goroutine selecting on stopChan, "running" or "returned"

shutV == <<stopCloses, panicked, listenSt, httpSt, stopAllSt, watchSt>>

\* The playback client: the downloads of one stream URL, each by its own
\* HLSStream, and the consumer of each progress channel
VARIABLES
  holder,         \* the download whose canStartDownload set the marker (0: not set)
  dpos,           \* per download, the position of Download and of its goroutine
  files,          \* per download, the files hlsPlaylistDive has retrieved
  filesFetched,   \* per download, the field filesFetched of its HLSStream
  progress,       \* per download, the buffer of its progress channel
  progClosed,     \* per download, its progress channel is closed
  received,       \* history: per download, the events its consumer received
  clientPanicked  \* a goroutine of the client panicked: the process is gone

clientV == <<holder, dpos, files, filesFetched, progress, progClosed, received,
             clientPanicked>>

\* everything outside the tower server
notTower == <<libV, adminV, timerV, condV, shutV, clientV>>

\* every variable
allVars == <<vars, notTower>>

\* ------------------------------------------------------------- Task Queue
\* Outcomes of q.GetTaskBySDHash as the dispatcher sees them: err is "nil"
\* when a row is returned, "notfound" when the table has no row for the
\* hash, "dberror" when the query itself fails (possible with or without a row).
LookupErrs(q, sd) ==
  (IF q[sd].TID # 0 THEN {"nil"} ELSE {"notfound"}) \cup {"dberror"}

\* Create(tid, sdhash, url, workerID, payload): atomic insert that fails
\* (leaving the table as it is) when a non-terminal row shares the SDHash.
CreateTask(q, tid, sd, wid, payload) ==
  IF q[sd].TID # 0 THEN q
  ELSE [q EXCEPT ![sd] = [TID |-> tid, WorkerID |-> wid, Payload |-> payload]]

\* ---------------------------------------------------------------- Library
\* RemoteStream produced by worker wid for task tid: its manifest carries the
\* TID, the SDHash and the worker that transcoded it.
RemoteStream(tid, sd, wid) == [TID |-> tid, SDHash |-> sd, TranscodedBy |-> wid]

AddFaults == {"none", "unavailable"}

\* Library.AddRemoteStream(rs): the error it returns ("nil" on success).
AddRemoteStreamErr(lib, rs, fault) ==
  IF fault # "none" THEN fault
  ELSE IF lib[rs.SDHash].TID = 0 THEN "nil"
  ELSE IF lib[rs.SDHash] = rs THEN "nil"
  ELSE "ErrDuplicateStream"

\* Library.AddRemoteStream(rs): the videos table afterwards.
AddRemoteStreamLib(lib, rs, fault) ==
  IF fault = "none" /\ lib[rs.SDHash].TID = 0
  THEN [lib EXCEPT ![rs.SDHash] = rs]
  ELSE lib

\* ------------------------------------------------- Library (its own calls)
\* Config{Storage: NewDummyStorage("storage1", ...)}: the one storage the
\* library knows
ConfiguredStorage == "storage1"
RemoteStorages == {"storage1", "storage2"}
ManifestTIDs == {"abc123", "def456"}
\* instants: what a worker puts in TranscodedAt and what the server's clock shows
Times == {"t1", "t2"}

\* Manifest{TID, SDHash, TranscodedBy, TranscodedAt, Ladder}
StreamManifests == [TID : ManifestTIDs, SDHash : SDHashes, TranscodedBy : {"w1"},
               TranscodedAt : Times, Ladder : {<<"720p", "360p">>}]
\* the streams GenerateDummyStream can hand out: the manifest carries the
\* stream's own SDHash
Streams ==
  {rs \in [SDHash : SDHashes, RemoteStorage : RemoteStorages, Manifest : StreamManifests] :
     rs.Manifest.SDHash = rs.SDHash}

\* faulty variant: the document's tid member is filled from the SDHash
Marshal_TidFromSDHash(m) ==
  << <<"tid", m.SDHash>>, <<"sd_hash", m.SDHash>>, <<"transcoded_by", m.TranscodedBy>>,
     <<"transcoded_at", m.TranscodedAt>>, <<"ladder", m.Ladder>> >>

\* the manifest document of the videos.manifest column: the JSON object
\* {tid, sd_hash, transcoded_by, transcoded_at, ladder} as its list of members
Marshal(m) ==
  << <<"tid", m.TID>>, <<"sd_hash", m.SDHash>>, <<"transcoded_by", m.TranscodedBy>>,
     <<"transcoded_at", m.TranscodedAt>>, <<"ladder", m.Ladder>> >>
Member(doc, key) == doc[CHOOSE i \in DOMAIN doc : doc[i][1] = key][2]
\* json.Unmarshal(v.Manifest.RawMessage, m)
Unmarshal(doc) ==
  [TID |-> Member(doc, "tid"), SDHash |-> Member(doc, "sd_hash"),
   TranscodedBy |-> Member(doc, "transcoded_by"),
   TranscodedAt |-> Member(doc, "transcoded_at"), Ladder |-> Member(doc, "ladder")]

\* m.TranscodedAt = time.Time{}
ZeroTranscodedAt(m) == [m EXCEPT !.TranscodedAt = ""]
\* two manifests are equal up to the server-stamped TranscodedAt
SameManifest(m1, m2) == ZeroTranscodedAt(m1) = ZeroTranscodedAt(m2)

\* the rows of sdhash in the videos table
VideosOf(tbl, sd) == {v \in tbl : v.SDHash = sd}
NoVideoRow == [SDHash |-> "", Manifest |-> <<>>, Storage |-> "", AccessCount |-> 0]
VideoRow(tbl, sd) == IF VideosOf(tbl, sd) = {} THEN NoVideoRow
                     ELSE CHOOSE v \in VideosOf(tbl, sd) : TRUE

\* Library.AddRemoteStream(rs) at server time now: the error returned
LibAddErr(tbl, rs, now) ==
  IF rs.RemoteStorage # ConfiguredStorage THEN "ErrStorageUnknown"
  ELSE IF VideosOf(tbl, rs.SDHash) = {} THEN "nil"
  ELSE IF SameManifest(Unmarshal(VideoRow(tbl, rs.SDHash).Manifest), rs.Manifest) THEN "nil"
  ELSE "ErrDuplicateStream"

\* faulty variant: the row is inserted without looking for an existing one
LibAddTable_NoExistenceCheck(tbl, rs, now) ==
  IF rs.RemoteStorage = ConfiguredStorage
  THEN tbl \cup {[SDHash |-> rs.SDHash,
                  Manifest |-> Marshal([rs.Manifest EXCEPT !.TranscodedAt = now]),
                  Storage |-> rs.RemoteStorage, AccessCount |-> 0]}
  ELSE tbl

\* Library.AddRemoteStream(rs) at server time now: the videos table afterwards
LibAddTable(tbl, rs, now) ==
  IF rs.RemoteStorage = ConfiguredStorage /\ VideosOf(tbl, rs.SDHash) = {}
  THEN tbl \cup {[SDHash |-> rs.SDHash,
                  Manifest |-> Marshal([rs.Manifest EXCEPT !.TranscodedAt = now]),
                  Storage |-> rs.RemoteStorage, AccessCount |-> 0]}
  ELSE tbl

\* Library.GetVideo(sdhash): the error returned
LibGetErr(tbl, sd) == IF VideosOf(tbl, sd) = {} THEN "ErrStreamNotFound" ELSE "nil"
\* faulty variant: AccessCount is written from a stale read instead of advanced
LibGetTable_StaleCount(tbl, sd) ==
  {IF v.SDHash = sd THEN [v EXCEPT !.AccessCount = 1] ELSE v : v \in tbl}

\* Library.GetVideo(sdhash): the videos table afterwards (AccessCount advanced)
LibGetTable(tbl, sd) ==
  {IF v.SDHash = sd THEN [v EXCEPT !.AccessCount = @ + 1] ELSE v : v \in tbl}

\* faulty variant: the path of the URL is the SDHash instead of the TID
LibURL_PathFromSDHash(tbl, sd) ==
  IF VideosOf(tbl, sd) = {} THEN ""
  ELSE LET v == VideoRow(tbl, sd)
       IN "remote://" \o v.Storage \o "/" \o v.SDHash \o "/"

\* Library.GetVideoURL(sdhash): the URL returned ("" with ErrStreamNotFound)
LibURL(tbl, sd) ==
  IF VideosOf(tbl, sd) = {} THEN ""
  ELSE LET v == VideoRow(tbl, sd)
       IN "remote://" \o v.Storage \o "/" \o Unmarshal(v.Manifest).TID \o "/"

\* the channels the upstream network knows, by the handle an admin posts
\* (a handle it does not know resolves to NoClaim)
ChannelHandles == {"@specialoperationstest:3", "@lbry:3f", "@odysee:8", "@veritasium:f",
                   "x7Kq"}
NoClaim == [URL |-> "", ClaimID |-> ""]
Resolve(handle) ==
  IF handle = "@specialoperationstest:3"
  THEN [URL |-> "lbry://@specialoperationstest#3",
        ClaimID |-> "395b0f23dcd07212c3e956b697ba5ba89578ca54"]
  ELSE IF handle = "@lbry:3f"
  THEN [URL |-> "lbry://@lbry#3f", ClaimID |-> "3fda836a92faaceedfe398225fb9b2ee2ed1f01a"]
  ELSE IF handle = "@odysee:8"
  THEN [URL |-> "lbry://@odysee#8", ClaimID |-> "80d2590ad04e36fb1d077a9b9e3a8bba76defdf8"]
  ELSE IF handle = "@veritasium:f"
  THEN [URL |-> "lbry://@veritasium#f", ClaimID |-> "f2ae8a696eec611e3c80d7e6fb0d8d0a5d5dd5c0"]
  ELSE NoClaim

\* faulty variant: the unique constraint on the channel is not enforced
AddChannelErr_NoUniqueCheck(tbl, handle) ==
  IF Resolve(handle) = NoClaim THEN "channel not found" ELSE "nil"

\* Library.AddChannel(url, priority): the error returned (its message)
AddChannelErr(tbl, handle) ==
  IF Resolve(handle) = NoClaim THEN "channel not found"
  ELSE IF \E i \in DOMAIN tbl : tbl[i].ClaimID = Resolve(handle).ClaimID
  THEN "duplicate key value violates unique constraint"
  ELSE "nil"

\* Library.AddChannel(url, priority): the channels table afterwards
AddChannelTable(tbl, handle, priority) ==
  IF AddChannelErr(tbl, handle) # "nil" THEN tbl
  ELSE Append(tbl, [URL |-> Resolve(handle).URL, ClaimID |-> Resolve(handle).ClaimID,
                    Priority |-> IF priority = "" THEN "normal" ELSE priority])

\* the streams of SDHash sd among those added with success (one at most)
AddedOf(log, sd) == {a \in log : a.SDHash = sd}
\* nothing called yet
NoRet == [op |-> "none"]
\* no request answered yet
NoResp == [status |-> 0]

AdminInit ==
  /\ channelTable = <<>>
  /\ adminResp = NoResp

\* manageTask has just entered its loop: gauge incremented, timer created
TimerInit ==
  /\ loopSt = "running"
  /\ silence = 0
  /\ progressSeen = 0
  /\ warnings = 0
  /\ taskMetrics = [running |-> 1, errs |-> 0, done |-> 0]

\* no PutLoad call has computed its spares yet
NoCycle == [spares |-> 0, enq |-> 0]

\* NewConductor, then Start
ConductorInit ==
  /\ asynqQ = [h \in SDHashes |-> "none"]
  /\ results = <<>>
  /\ cpc = "idle"
  /\ left = 0
  /\ dispErr = ""
  /\ putErr = ""
  /\ rpc = "loop"
  /\ cStopped = FALSE
  /\ condLog = <<>>
  /\ popped = {}
  /\ published = 0
  /\ cycle = NoCycle

DlIds == 1..MaxDownloads
\* the in-progress marker of the stream's URL is not set
NoHolder == 0
\* canStartDownload: true, setting the marker, unless the marker is set
CanStartDownload(h) == h = NoHolder

\* newHLSStream for every download: progress is make(chan Progress, 1)
ClientInit ==
  /\ holder = NoHolder
  /\ dpos = [d \in DlIds |-> "new"]
  /\ files = [d \in DlIds |-> 0]
  /\ filesFetched = [d \in DlIds |-> 0]
  /\ progress = [d \in DlIds |-> <<>>]
  /\ progClosed = [d \in DlIds |-> FALSE]
  /\ received = [d \in DlIds |-> <<>>]
  /\ clientPanicked = FALSE

\* the dispatcher and the manageTask goroutines; all of them select on stopChan
Watchers == {0} \cup TIDs

\* StartAll has returned: the dispatcher, the tasks' state machines and the
\* two goroutines of startHttpServer are running
ShutdownInit ==
  /\ stopCloses = 0
  /\ panicked = FALSE
  /\ listenSt = "serving"
  /\ httpSt = "waiting"
  /\ stopAllSt = "idle"
  /\ watchSt = [g \in Watchers |-> "running"]

LibraryInit ==
  /\ videoTable = {}
  /\ gets = [h \in SDHashes |-> 0]
  /\ added = {}
  /\ libRet = NoRet

\* ------------------------------------------------------------------- Init
RestoredTasks(q) ==
  LET live_h == {h \in SDHashes : q[h].TID # 0}
      RECURSIVE Build(_)
      Build(S) ==
        IF S = {} THEN <<>>
        ELSE LET h == CHOOSE x \in S : \A y \in S : q[x].TID <= q[y].TID
             IN <<[id |-> q[h].TID, workerID |-> q[h].WorkerID,
                   restored |-> TRUE, exPayload |-> q[h].Payload]>>
                \o Build(S \ {h})
  IN Build(live_h)

Init ==
  /\ tasks = [h \in SDHashes |-> NoRow]
  /\ videos = [h \in SDHashes |-> NoVideo]
  /\ nextTid = 1
  /\ activeTaskChan = <<>>
  /\ dpc = "select"
  /\ cur = NoTask
  /\ err = ""
  /\ stopped = FALSE
  /\ sm = [t \in TIDs |-> [st |-> "none", wid |-> "", got |-> "", addErr |-> ""]]
  /\ running = [w \in Workers |-> 0]
  /\ errs = [w \in Workers |-> 0]
  /\ done = [w \in Workers |-> 0]
  /\ reqLog = <<>>
  /\ atLog = [t \in TIDs |-> [taken |-> FALSE, restored |-> FALSE, sends |-> 0, spawns |-> 0]]
  /\ dispatched = [t \in TIDs |-> ""]
  /\ live = [t \in TIDs |-> FALSE]
  /\ addCalls = [t \in TIDs |-> 0]
  /\ LibraryInit
  /\ AdminInit
  /\ TimerInit
  /\ ConductorInit
  /\ ShutdownInit
  /\ ClientInit

\* ------------------------------------------------------------ environment
\* A worker-idle message: the fabric emits one fresh ActiveTask.  Worker
\* names are interchangeable, so the first worker ever to present is w1.
WorkerIdle(w) ==
  /\ nextTid <= MaxTasks
  /\ nextTid = 1 => w = "w1"
  /\ activeTaskChan' = Append(activeTaskChan,
        [id |-> nextTid, workerID |-> w, restored |-> FALSE, exPayload |-> NilPayload])
  /\ nextTid' = nextTid + 1
  /\ UNCHANGED <<tasks, videos, dpc, cur, err, stopped, sm, metricsV,
                 histV>>
  /\ UNCHANGED notTower

\* The task of hash sd reaches a terminal state in the Task Queue (completed,
\* failed, or declared timed out by the sweeper): its row is removed.
TaskTerminal(sd) ==
  /\ tasks[sd].TID # 0
  /\ tasks' = [tasks EXCEPT ![sd] = NoRow]
  /\ live' = [live EXCEPT ![tasks[sd].TID] = FALSE]
  /\ UNCHANGED <<videos, nextTid, dispV, stopped, sm, metricsV,
                 reqLog, atLog, dispatched, addCalls>>
  /\ UNCHANGED notTower

\* ------------------------------------------------------------- dispatcher
Inc(g, w) == [g EXCEPT ![w] = @ + 1]
Dec(g, w) == [g EXCEPT ![w] = @ - 1]

NoSM == [st |-> "none", wid |-> "", got |-> "", addErr |-> ""]
NoAtLog == [taken |-> FALSE, restored |-> FALSE, sends |-> 0, spawns |-> 0]

\* at.SendPayload(p) followed by `go s.manageTask(at)` up to the first select
\* of manageTask (TranscodingRequestsRunning.Inc(), Dec() deferred).  A fresh
\* payload is recorded in the Task Queue as it is sent; a restored one is only
\* re-sent.
SendAndSpawn(at, p) ==
  /\ tasks' = IF at.restored THEN tasks
              ELSE CreateTask(tasks, p.TID, p.SDHash, at.workerID, p)
  /\ dispatched' = [dispatched EXCEPT ![at.id] = p.SDHash]
  /\ live' = IF at.restored THEN live ELSE [live EXCEPT ![at.id] = TRUE]
  /\ atLog' = [atLog EXCEPT ![at.id] = [taken |-> TRUE, restored |-> at.restored,
                                        sends |-> @.sends + 1,
                                        spawns |-> @.spawns + 1]]
  /\ sm' = [sm EXCEPT ![at.id] = [NoSM EXCEPT !.st = "running", !.wid = at.workerID]]
  /\ running' = Inc(running, at.workerID)

\* `at.restored && at.exPayload != nil`
IsRestored(at) == at.restored /\ at.exPayload # NilPayload

\* faulty variant: a restored task is served like a new one, from `requests`
DispRestored_AsNew ==
  /\ dpc = "select"
  /\ activeTaskChan # <<>>
  /\ LET at == Head(activeTaskChan) IN
       /\ IsRestored(at)
       /\ cur' = at
       /\ atLog' = [atLog EXCEPT ![at.id].taken = TRUE]
  /\ activeTaskChan' = Tail(activeTaskChan)
  /\ dpc' = "pull"
  /\ UNCHANGED <<persistent, err, stopped, sm, metricsV,
                 reqLog, dispatched, live, addCalls>>
  /\ UNCHANGED notTower

\* case at := <-activeTaskChan, restored branch
DispRestored ==
  /\ dpc = "select"
  /\ activeTaskChan # <<>>
  /\ LET at == Head(activeTaskChan) IN
       /\ IsRestored(at)
       /\ SendAndSpawn(at, at.exPayload)
  /\ activeTaskChan' = Tail(activeTaskChan)
  /\ UNCHANGED <<videos, nextTid, dpc, cur, err, stopped, errs, done,
                 reqLog, addCalls>>
  /\ UNCHANGED notTower

\* faulty variant: the dispatcher receives from `requests` before it holds an
\* ActiveTask
DispNew_PullsFirst ==
  /\ dpc = "select"
  /\ Len(reqLog) < MaxRequests
  /\ reqLog' = Append(reqLog, [sd |-> "h1", rejects |-> 0, sends |-> 0, tid |-> 0])
  /\ UNCHANGED <<persistent, dispV, stopped, sm, metricsV,
                 atLog, dispatched, live, addCalls>>
  /\ UNCHANGED notTower

\* case at := <-activeTaskChan, new-task branch: enter the request loop
DispNew ==
  /\ dpc = "select"
  /\ activeTaskChan # <<>>
  /\ LET at == Head(activeTaskChan) IN
       /\ ~IsRestored(at)
       /\ cur' = at
       /\ atLog' = [atLog EXCEPT ![at.id].taken = TRUE]
  /\ activeTaskChan' = Tail(activeTaskChan)
  /\ dpc' = "pull"
  /\ UNCHANGED <<persistent, err, stopped, sm, metricsV,
                 reqLog, dispatched, live, addCalls>>
  /\ UNCHANGED notTower

\* faulty variant: the lookup result is ignored and no candidate is ever rejected
IsDuplicate_NeverRejects(e) == FALSE

\* `if err != nil { break }`: the candidate is a duplicate iff err is nil
IsDuplicate(e) == e = "nil"

\* faulty variant: a rejected candidate is not skipped but sent to the worker as well
DispPull_RejectAndSend(sd, e) ==
  /\ dpc = "pull"
  /\ Len(reqLog) < MaxRequests
  /\ reqLog = <<>> => sd = "h1"
  /\ LET req == [sd |-> sd, rejects |-> 0, sends |-> 1, tid |-> cur.id]
     IN /\ e \in LookupErrs(tasks, sd)
        /\ err' = e
        /\ reqLog' = Append(reqLog, [req EXCEPT !.rejects = IF e = "nil" THEN 1 ELSE 0])
        /\ SendAndSpawn(cur, MsgTranscodingTask(sd, cur.id))
        /\ dpc' = "select"
        /\ cur' = NoTask
  /\ UNCHANGED <<videos, nextTid, activeTaskChan, stopped, errs, done, addCalls>>
  /\ UNCHANGED notTower

\* faulty variant: a priority class; the payload is built for a request of h2
\* whatever request was received
DispPull_PriorityFirst(sd, e) ==
  /\ dpc = "pull"
  /\ Len(reqLog) < MaxRequests
  /\ reqLog = <<>> => sd = "h1"
  /\ LET req == [sd |-> sd, rejects |-> 0, sends |-> 0, tid |-> 0]
     IN /\ e \in LookupErrs(tasks, sd)
        /\ err' = e
        /\ IF IsDuplicate(e)
           THEN /\ reqLog' = Append(reqLog, [req EXCEPT !.rejects = 1])
                /\ UNCHANGED <<tasks, dispatched, live, atLog, sm, running, dpc, cur>>
           ELSE /\ reqLog' = Append(reqLog, [req EXCEPT !.sends = 1, !.tid = cur.id])
                /\ SendAndSpawn(cur, MsgTranscodingTask("h2", cur.id))
                /\ dpc' = "select"
                /\ cur' = NoTask
  /\ UNCHANGED <<videos, nextTid, activeTaskChan, stopped, errs, done, addCalls>>
  /\ UNCHANGED notTower

\* one turn of the request loop: trReq := <-requests receives the request
\* (of hash sd) the producer offers at this moment; lookup; then either
\* trReq.Reject() and loop, or break, SendPayload and spawn
\* (SDHashes are interchangeable, so the first request ever received is of h1)
DispPull(sd, e) ==
  /\ dpc = "pull"
  /\ Len(reqLog) < MaxRequests
  /\ reqLog = <<>> => sd = "h1"
  /\ LET req == [sd |-> sd, rejects |-> 0, sends |-> 0, tid |-> 0]
     IN /\ e \in LookupErrs(tasks, sd)
        /\ err' = e
        /\ IF IsDuplicate(e)
           THEN /\ reqLog' = Append(reqLog, [req EXCEPT !.rejects = 1])
                /\ UNCHANGED <<tasks, dispatched, live, atLog, sm, running, dpc, cur>>
           ELSE /\ reqLog' = Append(reqLog, [req EXCEPT !.sends = 1, !.tid = cur.id])
                /\ SendAndSpawn(cur, MsgTranscodingTask(sd, cur.id))
                /\ dpc' = "select"
                /\ cur' = NoTask
  /\ UNCHANGED <<videos, nextTid, activeTaskChan, stopped, errs, done, addCalls>>
  /\ UNCHANGED notTower

\* case <-s.stopChan: return
DispStop ==
  /\ dpc = "select"
  /\ stopped
  /\ dpc' = "done"
  /\ UNCHANGED <<persistent, activeTaskChan, cur, err, stopped, sm,
                 metricsV, histV>>
  /\ UNCHANGED notTower

\* StopAll: close(s.stopChan)
StopAll ==
  /\ ~stopped
  /\ stopped' = TRUE
  /\ UNCHANGED <<persistent, dispV, sm, metricsV, histV>>
  /\ UNCHANGED notTower

\* ---------------------------------------------------------- state machine
\* case p := <-at.progress: log and keep selecting
SMProgress(t) ==
  /\ sm[t].st = "running"
  /\ UNCHANGED vars
  /\ UNCHANGED notTower

\* case <-time.After(300 * time.Second): warn and keep selecting
SMTimeout(t) ==
  /\ sm[t].st = "running"
  /\ UNCHANGED vars
  /\ UNCHANGED notTower

\* the deferred TranscodingRequestsRunning.Dec() and the return, after the
\* state machine received event `got`
Return(t, got, addErr) ==
  [sm EXCEPT ![t].st = "exited", ![t].got = got, ![t].addErr = addErr]

\* case e := <-at.errors
SMError(t) ==
  /\ sm[t].st = "running"
  /\ errs' = Inc(errs, sm[t].wid)
  /\ running' = Dec(running, sm[t].wid)
  /\ sm' = Return(t, "error", "")
  /\ UNCHANGED <<persistent, dispV, stopped, done, histV>>
  /\ UNCHANGED notTower

\* faulty variant: the nil check on the manifest is missing
ManifestMissing_NoCheck(m) == FALSE

\* `m == nil` for the manifest m of a success event
ManifestMissing(m) == m = "null"

\* faulty variant: the error of AddRemoteStream is ignored
IngestFailed_Ignored(addErr) == FALSE

\* `if err := ...AddRemoteStream(*d.RemoteStream); err != nil`
IngestFailed(addErr) == addErr # "nil"

\* case d := <-at.success, with m the manifest of d.RemoteStream ("null" or
\* "valid") and fault the fault the library meets during AddRemoteStream
SMSuccess(t, m, fault) ==
  /\ sm[t].st = "running"
  /\ LET w == sm[t].wid
         rs == RemoteStream(t, dispatched[t], w)
         addErr == AddRemoteStreamErr(videos, rs, fault)
     IN IF ManifestMissing(m)
        THEN /\ fault = "none"
             /\ errs' = Inc(errs, w)
             /\ running' = Dec(running, w)
             /\ sm' = Return(t, m, "")
             /\ UNCHANGED <<videos, done, addCalls>>
        ELSE /\ addCalls' = [addCalls EXCEPT ![t] = @ + 1]
             /\ videos' = AddRemoteStreamLib(videos, rs, fault)
             /\ running' = Dec(Dec(running, w), w)
             /\ sm' = Return(t, m, addErr)
             /\ IF IngestFailed(addErr)
                THEN errs' = Inc(errs, w) /\ UNCHANGED done
                ELSE done' = Inc(done, w) /\ UNCHANGED errs
  /\ UNCHANGED <<tasks, nextTid, dispV, stopped, reqLog, atLog, dispatched, live>>
  /\ UNCHANGED notTower

\* faulty variant: abandonment is counted as a task error
SMStop_CountsError(t) ==
  /\ sm[t].st = "running"
  /\ stopped
  /\ running' = Dec(running, sm[t].wid)
  /\ errs' = Inc(errs, sm[t].wid)
  /\ sm' = Return(t, "stop", "")
  /\ UNCHANGED <<persistent, dispV, stopped, done, histV>>
  /\ UNCHANGED notTower

\* case <-s.stopChan: return
SMStop(t) ==
  /\ sm[t].st = "running"
  /\ stopped
  /\ running' = Dec(running, sm[t].wid)
  /\ sm' = Return(t, "stop", "")
  /\ UNCHANGED <<persistent, dispV, stopped, errs, done, histV>>
  /\ UNCHANGED notTower

\* ---------------------------------------------------------------- restart
\* The process dies and is started again: everything in memory is lost, the
\* tasks and videos tables and the broker queues survive, and the fabric
\* emits a restored ActiveTask for every row of the tasks table.
Restart ==
  /\ activeTaskChan' = RestoredTasks(tasks)
  /\ dpc' = "select"
  /\ cur' = NoTask
  /\ err' = ""
  /\ stopped' = FALSE
  /\ sm' = [t \in TIDs |-> NoSM]
  /\ running' = [w \in Workers |-> 0]
  /\ errs' = [w \in Workers |-> 0]
  /\ done' = [w \in Workers |-> 0]
  /\ atLog' = [t \in TIDs |-> NoAtLog]
  /\ addCalls' = [t \in TIDs |-> 0]
  /\ UNCHANGED <<persistent, reqLog, dispatched, live>>
  /\ UNCHANGED notTower

\* ---------------------------------------------------------- specification
Manifests == {"null", "valid"}

Next ==
  \/ \E w \in Workers : WorkerIdle(w)
  \/ \E sd \in SDHashes : TaskTerminal(sd)
  \/ DispRestored
  \/ DispNew
  \/ \E sd \in SDHashes, e \in {"nil", "notfound", "dberror"} : DispPull(sd, e)
  \/ DispStop
  \/ StopAll
  \/ \E t \in TIDs : SMProgress(t)
  \/ \E t \in TIDs : SMError(t)
  \/ \E t \in TIDs : SMTimeout(t)
  \/ \E t \in TIDs, m \in Manifests, fault \in AddFaults : SMSuccess(t, m, fault)
  \/ \E t \in TIDs : SMStop(t)
  \/ Restart

Spec == Init /\ [][Next]_allVars

\* ------------------------------------------------------- Library, by call
\* everything outside the library
notLibrary == <<vars, adminV, timerV, condV, shutV, clientV>>

\* err = lib.AddRemoteStream(rs), the server's clock showing `now`
LibAdd(rs, now) ==
  /\ videoTable' = LibAddTable(videoTable, rs, now)
  /\ libRet' = [op |-> "AddRemoteStream", sd |-> rs.SDHash, rs |-> rs,
                err |-> LibAddErr(videoTable, rs, now)]
  /\ added' = IF LibAddErr(videoTable, rs, now) = "nil"
              THEN (added \ AddedOf(added, rs.SDHash)) \cup {rs} ELSE added
  /\ UNCHANGED <<gets, notLibrary>>

\* v, err = lib.GetVideo(sd)
LibGet(sd) ==
  /\ gets[sd] < MaxAccess
  /\ IF LibGetErr(videoTable, sd) = "nil"
     THEN /\ videoTable' = LibGetTable(videoTable, sd)
          /\ gets' = [gets EXCEPT ![sd] = @ + 1]
          /\ libRet' = [op |-> "GetVideo", sd |-> sd, err |-> "nil",
                        video |-> VideoRow(videoTable', sd)]
     ELSE /\ libRet' = [op |-> "GetVideo", sd |-> sd, err |-> LibGetErr(videoTable, sd)]
          /\ UNCHANGED <<videoTable, gets>>
  /\ UNCHANGED <<added, notLibrary>>

\* url, err = lib.GetVideoURL(sd)
LibGetURL(sd) ==
  /\ libRet' = [op |-> "GetVideoURL", sd |-> sd, err |-> LibGetErr(videoTable, sd),
                url |-> LibURL(videoTable, sd)]
  /\ UNCHANGED <<videoTable, gets, added, notLibrary>>

LibNext ==
  \/ \E rs \in Streams, now \in Times : LibAdd(rs, now)
  \/ \E sd \in SDHashes : LibGet(sd)
  \/ \E sd \in SDHashes : LibGetURL(sd)

LibSpec == Init /\ [][LibNext]_allVars

\* ------------------------------------------------------------ admin surface
\* everything outside the admin surface
notAdmin == <<vars, libV, timerV, condV, shutV, clientV>>

\* an authorised POST /api/v1/channel with form field channel = handle:
\* 201 when AddChannel succeeds, 400 with the error's message otherwise
AdminPost(handle) ==
  /\ channelTable' = AddChannelTable(channelTable, handle, "")
  /\ adminResp' = [handle |-> handle,
                   status |-> IF AddChannelErr(channelTable, handle) = "nil" THEN 201 ELSE 400,
                   body |-> IF AddChannelErr(channelTable, handle) = "nil" THEN ""
                            ELSE AddChannelErr(channelTable, handle)]
  /\ UNCHANGED notAdmin

AdminNext == \E handle \in ChannelHandles : AdminPost(handle)

AdminSpec == Init /\ [][AdminNext]_allVars

\* ------------------------------------------- manageTask against the clock
\* everything outside the watched goroutine
notTimer == <<vars, libV, adminV, condV, shutV, clientV>>

\* time.After(300 * time.Second)
SilenceTimeout == 300
\* Timings.TRequestTimeoutBase of defaultTimings; the clock is read at its
\* multiples
TRequestTimeoutBase == 60

\* the clock advances while the goroutine waits in its select; the timer's
\* case is taken as soon as the timer has run out
Tick ==
  /\ loopSt = "running"
  /\ silence < SilenceTimeout
  /\ silence' = IF silence + TRequestTimeoutBase > SilenceTimeout THEN SilenceTimeout
                ELSE silence + TRequestTimeoutBase
  /\ UNCHANGED <<loopSt, progressSeen, warnings, taskMetrics, notTimer>>

\* faulty variant: the timer is created once, before the loop, and a progress
\* event does not restart it
TaskProgress_KeepsTimer ==
  /\ loopSt = "running"
  /\ progressSeen < MaxEvents
  /\ progressSeen' = progressSeen + 1
  /\ UNCHANGED <<loopSt, silence, warnings, taskMetrics, notTimer>>

\* case p := <-at.progress: log; the next turn of the loop evaluates
\* time.After again
TaskProgress ==
  /\ loopSt = "running"
  /\ progressSeen < MaxEvents
  /\ progressSeen' = progressSeen + 1
  /\ silence' = 0
  /\ UNCHANGED <<loopSt, warnings, taskMetrics, notTimer>>

\* case <-time.After(300 * time.Second): warn; the next turn of the loop
\* evaluates time.After again
TaskSilent ==
  /\ loopSt = "running"
  /\ silence >= SilenceTimeout
  /\ warnings < MaxEvents
  /\ warnings' = warnings + 1
  /\ silence' = 0
  /\ UNCHANGED <<loopSt, progressSeen, taskMetrics, notTimer>>

\* case e := <-at.errors, case d := <-at.success (manifest m, AddRemoteStream
\* returning addErr) or case <-s.stopChan: the goroutine returns
TaskEnds(got, addErr) ==
  /\ loopSt = "running"
  /\ loopSt' = "exited"
  /\ taskMetrics' =
       IF got = "stop" THEN [taskMetrics EXCEPT !.running = @ - 1]
       ELSE IF got = "error" \/ ManifestMissing(got)
       THEN [taskMetrics EXCEPT !.running = @ - 1, !.errs = @ + 1]
       ELSE IF IngestFailed(addErr)
       THEN [taskMetrics EXCEPT !.running = @ - 2, !.errs = @ + 1]
       ELSE [taskMetrics EXCEPT !.running = @ - 2, !.done = @ + 1]
  /\ UNCHANGED <<silence, progressSeen, warnings, notTimer>>

TimerNext ==
  \/ Tick
  \/ TaskProgress
  \/ TaskSilent
  \/ \E got \in {"error", "stop", "null", "valid"}, addErr \in {"nil", "unavailable"} :
       TaskEnds(got, addErr)

TimerSpec == Init /\ [][TimerNext]_allVars

\* --------------------------------------------------------------- Conductor
\* everything outside the conductor and its library table
notConductor == <<vars, adminV, timerV, gets, added, libRet, shutV, clientV>>

\* the tasks the workers are running
ActiveTasks(q) == {h \in SDHashes : q[h] = "active"}
\* sum over the servers of Concurrency - len(ActiveWorkers); the servers'
\* Concurrency adds up to MaxTasks
Spares(q) == MaxTasks - Cardinality(ActiveTasks(q))

\* asynqClient.Enqueue(t, asynq.Unique(24h), ...): the errors it can return
\* for a task of hash sd ("nil": enqueued)
EnqueueErrs(q, sd, closed) ==
  IF closed THEN {"error"}
  ELSE (IF q[sd] # "none" THEN {"ErrDuplicateTask"} ELSE {"nil"}) \cup {"error"}

\* the stream a worker reports for the task of hash sd
ResultStream(sd) ==
  [SDHash |-> sd, RemoteStorage |-> ConfiguredStorage,
   Manifest |-> [TID |-> "abc123", SDHash |-> sd, TranscodedBy |-> "w1",
                 TranscodedAt |-> "t1", Ladder |-> <<"720p", "360p">>]]

\* case <-t.C: PutLoad up to its first DispatchNextTask call
PutLoad(inspected) ==
  /\ cpc = "idle"
  /\ IF cStopped \/ ~inspected
     THEN /\ putErr' = "error"
          /\ cycle' = NoCycle
          /\ UNCHANGED <<cpc, left>>
     ELSE IF Spares(asynqQ) = 0
     THEN /\ putErr' = "nil"
          /\ cycle' = NoCycle
          /\ UNCHANGED <<cpc, left>>
     ELSE /\ cpc' = "dispatch"
          /\ left' = Spares(asynqQ)
          /\ cycle' = [spares |-> Spares(asynqQ), enq |-> 0]
          /\ UNCHANGED putErr
  /\ UNCHANGED <<asynqQ, results, dispErr, rpc, cStopped, condLog, popped, published,
                 videoTable, notConductor>>

\* faulty variant: a duplicate ends the call like an enqueued task, so PutLoad
\* counts it against its spares and in RequestsPublished
DispatchNextTask_DuplicateTakesSlot(sd, e) ==
  /\ cpc = "dispatch"
  /\ Len(condLog) < MaxRequests
  /\ e \in EnqueueErrs(asynqQ, sd, cStopped)
  /\ condLog' = Append(condLog, [sd |-> sd, err |-> e, rejected |-> FALSE])
  /\ IF e = "error"
     THEN /\ dispErr' = e
          /\ putErr' = e
          /\ cpc' = "idle"
          /\ left' = 0
          /\ UNCHANGED <<asynqQ, published, cycle>>
     ELSE /\ asynqQ' = IF e = "nil" THEN [asynqQ EXCEPT ![sd] = "pending"] ELSE asynqQ
          /\ cycle' = IF e = "nil" THEN [cycle EXCEPT !.enq = @ + 1] ELSE cycle
          /\ dispErr' = "nil"
          /\ published' = published + 1
          /\ left' = left - 1
          /\ cpc' = IF left = 1 THEN "idle" ELSE "dispatch"
          /\ putErr' = IF left = 1 THEN "nil" ELSE putErr
  /\ UNCHANGED <<results, rpc, cStopped, popped, videoTable, notConductor>>

\* DispatchNextTask, one receive from `incoming` (a request of hash sd) and
\* the Enqueue that follows, returning e: on ErrDuplicateTask the call goes on
\* with the next receive; otherwise it returns to PutLoad, which returns on an
\* error and on the last of its calls
DispatchNextTask(sd, e) ==
  /\ cpc = "dispatch"
  /\ Len(condLog) < MaxRequests
  /\ e \in EnqueueErrs(asynqQ, sd, cStopped)
  /\ condLog' = Append(condLog, [sd |-> sd, err |-> e, rejected |-> FALSE])
  /\ IF e = "ErrDuplicateTask"
     THEN UNCHANGED <<asynqQ, cpc, left, dispErr, putErr, published, cycle>>
     ELSE IF e # "nil"
     THEN /\ dispErr' = e
          /\ putErr' = e
          /\ cpc' = "idle"
          /\ left' = 0
          /\ UNCHANGED <<asynqQ, published, cycle>>
     ELSE /\ asynqQ' = [asynqQ EXCEPT ![sd] = "pending"]
          /\ dispErr' = "nil"
          /\ published' = published + 1
          /\ cycle' = [cycle EXCEPT !.enq = @ + 1]
          /\ left' = left - 1
          /\ cpc' = IF left = 1 THEN "idle" ELSE "dispatch"
          /\ putErr' = IF left = 1 THEN "nil" ELSE putErr
  /\ UNCHANGED <<results, rpc, cStopped, popped, videoTable, notConductor>>

\* case <-c.stopChan of the PutLoad goroutine
TickerStop ==
  /\ cpc = "idle"
  /\ cStopped
  /\ cpc' = "stopped"
  /\ UNCHANGED <<asynqQ, results, left, dispErr, putErr, rpc, cStopped, condLog,
                 popped, videoTable, published, cycle, notConductor>>

\* ProcessNextResult: BLPop, then AddRemoteStream meeting fault
ProcessNextResult(fault) ==
  /\ rpc = "loop"
  /\ ~cStopped
  /\ results # <<>>
  /\ results' = Tail(results)
  /\ popped' = popped \cup {Head(results)}
  /\ videoTable' = IF fault = "none"
                   THEN LibAddTable(videoTable, ResultStream(Head(results)), "t2")
                   ELSE videoTable
  /\ UNCHANGED <<asynqQ, cpc, left, dispErr, putErr, rpc, cStopped, condLog,
                 published, cycle, notConductor>>

\* case <-c.stopChan of the ProcessNextResult goroutine
ResultLoopStop ==
  /\ rpc = "loop"
  /\ cStopped
  /\ rpc' = "done"
  /\ UNCHANGED <<asynqQ, results, cpc, left, dispErr, putErr, cStopped, condLog,
                 popped, videoTable, published, cycle, notConductor>>

\* Conductor.Stop
ConductorStop ==
  /\ ~cStopped
  /\ cStopped' = TRUE
  /\ UNCHANGED <<asynqQ, results, cpc, left, dispErr, putErr, rpc, condLog,
                 popped, videoTable, published, cycle, notConductor>>

\* a worker takes a pending task
WorkerTakes(sd) ==
  /\ asynqQ[sd] = "pending"
  /\ Spares(asynqQ) > 0
  /\ asynqQ' = [asynqQ EXCEPT ![sd] = "active"]
  /\ UNCHANGED <<results, cpc, left, dispErr, putErr, rpc, cStopped, condLog,
                 popped, videoTable, published, cycle, notConductor>>

\* a worker completes its task and pushes the result
WorkerCompletes(sd) ==
  /\ asynqQ[sd] = "active"
  /\ asynqQ' = [asynqQ EXCEPT ![sd] = "none"]
  /\ results' = Append(results, sd)
  /\ UNCHANGED <<cpc, left, dispErr, putErr, rpc, cStopped, condLog,
                 popped, videoTable, published, cycle, notConductor>>

ConductorNext ==
  \/ \E inspected \in BOOLEAN : PutLoad(inspected)
  \/ \E sd \in SDHashes, e \in {"nil", "ErrDuplicateTask", "error"} : DispatchNextTask(sd, e)
  \/ TickerStop
  \/ \E fault \in AddFaults : ProcessNextResult(fault)
  \/ ResultLoopStop
  \/ ConductorStop
  \/ \E sd \in SDHashes : WorkerTakes(sd)
  \/ \E sd \in SDHashes : WorkerCompletes(sd)

ConductorSpec == Init /\ [][ConductorNext]_allVars

\* the two goroutines of Start are scheduled: a case of their select that
\* stays ready is taken.  Nothing obliges the upstream producer to send a
\* request on `incoming`, or a worker to finish a task.
ConductorFairSpec ==
  /\ ConductorSpec
  /\ WF_allVars(TickerStop)
  /\ WF_allVars(ResultLoopStop)
  /\ WF_allVars(\E fault \in AddFaults : ProcessNextResult(fault))
  /\ WF_allVars(\E inspected \in BOOLEAN : PutLoad(inspected))

\* ------------------------------------------------------- tower shutdown
\* everything outside the shutdown of the tower
notShutdown == <<vars, libV, adminV, timerV, condV, clientV>>

\* close(s.stopChan) by a goroutine: a close of a closed channel panics
CloseStopChan ==
  /\ stopCloses' = stopCloses + 1
  /\ panicked' = (stopCloses >= 1)

\* err := httpServer.ListenAndServe(...) returns an error (the address is
\* taken, the listener breaks) and the error is logged
HttpListenFails ==
  /\ ~panicked
  /\ listenSt = "serving"
  /\ httpSt = "waiting"
  /\ listenSt' = "failed"
  /\ UNCHANGED <<stopCloses, panicked, httpSt, stopAllSt, watchSt, notShutdown>>

\* the close(s.stopChan) that follows the logged error
HttpListenCloses ==
  /\ ~panicked
  /\ listenSt = "failed"
  /\ CloseStopChan
  /\ listenSt' = "exited"
  /\ UNCHANGED <<httpSt, stopAllSt, watchSt, notShutdown>>

\* ListenAndServe returns nil after Shutdown
HttpListenReturns ==
  /\ ~panicked
  /\ listenSt = "serving"
  /\ httpSt = "done"
  /\ listenSt' = "exited"
  /\ UNCHANGED <<stopCloses, panicked, httpSt, stopAllSt, watchSt, notShutdown>>

\* <-s.stopChan; httpServer.Shutdown()
HttpShutdown ==
  /\ ~panicked
  /\ httpSt = "waiting"
  /\ stopCloses >= 1
  /\ httpSt' = "done"
  /\ UNCHANGED <<stopCloses, panicked, listenSt, stopAllSt, watchSt, notShutdown>>

\* StopAll, its close(s.stopChan)
StopAllCloses ==
  /\ ~panicked
  /\ stopAllSt = "idle"
  /\ CloseStopChan
  /\ stopAllSt' = "closed"
  /\ UNCHANGED <<listenSt, httpSt, watchSt, notShutdown>>

\* StopAll, closing the consumer and the publisher of the fabric
StopAllClosesRPC ==
  /\ ~panicked
  /\ stopAllSt = "closed"
  /\ stopAllSt' = "done"
  /\ UNCHANGED <<stopCloses, panicked, listenSt, httpSt, watchSt, notShutdown>>

\* case <-s.stopChan: return, in the dispatcher or in a state machine
WatcherStops(g) ==
  /\ ~panicked
  /\ watchSt[g] = "running"
  /\ stopCloses >= 1
  /\ watchSt' = [watchSt EXCEPT ![g] = "returned"]
  /\ UNCHANGED <<stopCloses, panicked, listenSt, httpSt, stopAllSt, notShutdown>>

\* a state machine returns on a terminal event of its task
WatcherEnds(t) ==
  /\ ~panicked
  /\ watchSt[t] = "running"
  /\ watchSt' = [watchSt EXCEPT ![t] = "returned"]
  /\ UNCHANGED <<stopCloses, panicked, listenSt, httpSt, stopAllSt, notShutdown>>

ShutdownNext ==
  \/ HttpListenFails
  \/ HttpListenCloses
  \/ HttpListenReturns
  \/ HttpShutdown
  \/ StopAllCloses
  \/ StopAllClosesRPC
  \/ \E g \in Watchers : WatcherStops(g)
  \/ \E t \in TIDs : WatcherEnds(t)

ShutdownSpec == Init /\ [][ShutdownNext]_allVars

\* --------------------------------------------------------- playback client
\* everything outside the playback client
notClient == <<vars, libV, adminV, timerV, condV, shutV>>

\* Progress{Error, Stage, Done}
Progress(e, stage, d) == [Error |-> e, Stage |-> stage, Done |-> d]
\* the Stage of the event that reports the whole stream retrieved
FinalStage == 999999
\* cap(s.progress)
ProgressCap == 1

\* makeProgress on a stream whose counter is ff: filesFetched++, then an event
\* with the new counter as its Stage
MakeProgressOn(ff) == [filesFetched |-> ff + 1, event |-> Progress("", ff + 1, FALSE)]

\* s.progress <- ev by download d: blocks while the buffer is full
Send(d, ev) ==
  /\ Len(progress[d]) < ProgressCap
  /\ progress' = [progress EXCEPT ![d] = Append(@, ev)]

\* Download: the transcoder answers with `status` (0: the request itself
\* failed); on 303 the goroutine of startDownload is started, otherwise an
\* error is returned (downloads are interchangeable: they are requested in
\* the order of their numbers)
Download(d, status) ==
  /\ ~clientPanicked
  /\ dpos[d] = "new"
  /\ d > 1 => dpos[d - 1] # "new"
  /\ dpos' = [dpos EXCEPT ![d] = IF status = 303 THEN "start" ELSE "refused"]
  /\ UNCHANGED <<holder, files, filesFetched, progress, progClosed, received, clientPanicked,
                 notClient>>

\* startDownload: canStartDownload, which sets the marker unless it is set
StartDownload(d) ==
  /\ ~clientPanicked
  /\ dpos[d] = "start"
  /\ IF CanStartDownload(holder)
     THEN /\ holder' = d
          /\ dpos' = [dpos EXCEPT ![d] = "mkdir"]
     ELSE /\ dpos' = [dpos EXCEPT ![d] = "error"]
          /\ UNCHANGED holder
  /\ UNCHANGED <<files, filesFetched, progress, progClosed, received, clientPanicked,
                 notClient>>

\* startDownload: os.MkdirAll, whose error is returned
MkdirAll(d, ok) ==
  /\ ~clientPanicked
  /\ dpos[d] = "mkdir"
  /\ dpos' = [dpos EXCEPT ![d] = IF ok THEN "dive" ELSE "error"]
  /\ UNCHANGED <<holder, files, filesFetched, progress, progClosed, received, clientPanicked,
                 notClient>>

\* hlsPlaylistDive calls retrieveFile for its next file; the fetch fails
\* without a response ("transport": res is nil and res.Body panics), the
\* body cannot be read ("read": the error is returned) or the data arrive
RetrieveFile(d, outcome) ==
  /\ ~clientPanicked
  /\ dpos[d] = "dive"
  /\ files[d] < MaxFiles
  /\ clientPanicked' = (outcome = "transport")
  /\ dpos' = [dpos EXCEPT ![d] = IF outcome = "ok" THEN "progress"
                                 ELSE IF outcome = "read" THEN "error" ELSE @]
  /\ UNCHANGED <<holder, files, filesFetched, progress, progClosed, received, notClient>>

\* retrieveFile: s.makeProgress(len(data)) and the return.  retrieveFile has a
\* value receiver, so makeProgress counts on the call's own copy of the
\* stream, which is dropped at the return
MakeProgress(d) ==
  /\ ~clientPanicked
  /\ dpos[d] = "progress"
  /\ Send(d, MakeProgressOn(filesFetched[d]).event)
  /\ files' = [files EXCEPT ![d] = @ + 1]
  /\ dpos' = [dpos EXCEPT ![d] = "save"]
  /\ UNCHANGED <<holder, filesFetched, progClosed, received, clientPanicked, notClient>>

\* hlsPlaylistDive calls saveFile for the file retrieved; its error is
\* returned; after the last file of the stream the dive returns the size
SaveFile(d, ok, last) ==
  /\ ~clientPanicked
  /\ dpos[d] = "save"
  /\ files[d] = MaxFiles => last
  /\ dpos' = [dpos EXCEPT ![d] = IF ~ok THEN "error" ELSE IF last THEN "final" ELSE "dive"]
  /\ UNCHANGED <<holder, files, filesFetched, progress, progClosed, received, clientPanicked,
                 notClient>>

\* s.progress <- Progress{Stage: 999999, BytesLoaded: streamSize}
SendFinal(d) ==
  /\ ~clientPanicked
  /\ dpos[d] = "final"
  /\ Send(d, Progress("", FinalStage, FALSE))
  /\ dpos' = [dpos EXCEPT ![d] = "cache"]
  /\ UNCHANGED <<holder, files, filesFetched, progClosed, received, clientPanicked, notClient>>

\* s.client.CacheVideo(...); s.client.releaseDownload(s.rootURL())
ReleaseDownload(d) ==
  /\ ~clientPanicked
  /\ dpos[d] = "cache"
  /\ holder' = NoHolder
  /\ dpos' = [dpos EXCEPT ![d] = "done"]
  /\ UNCHANGED <<files, filesFetched, progress, progClosed, received, clientPanicked,
                 notClient>>

\* s.progress <- Progress{Done: true}
SendDone(d) ==
  /\ ~clientPanicked
  /\ dpos[d] = "done"
  /\ Send(d, Progress("", 0, TRUE))
  /\ dpos' = [dpos EXCEPT ![d] = "close"]
  /\ UNCHANGED <<holder, files, filesFetched, progClosed, received, clientPanicked, notClient>>

\* close(s.progress); return nil
CloseProgress(d) ==
  /\ ~clientPanicked
  /\ dpos[d] = "close"
  /\ progClosed' = [progClosed EXCEPT ![d] = TRUE]
  /\ dpos' = [dpos EXCEPT ![d] = "returned"]
  /\ UNCHANGED <<holder, files, filesFetched, progress, received, clientPanicked, notClient>>

\* startDownload returned err: s.progress <- Progress{Error: err}
SendError(d) ==
  /\ ~clientPanicked
  /\ dpos[d] = "error"
  /\ Send(d, Progress("err", 0, FALSE))
  /\ dpos' = [dpos EXCEPT ![d] = "returned"]
  /\ UNCHANGED <<holder, files, filesFetched, progClosed, received, clientPanicked, notClient>>

\* the event is the last one a consumer waits for
Terminal(ev) == ev.Done \/ ev.Error # ""

\* the consumer of download d receives from Progress() until the terminal event
ConsumerReads(d) ==
  /\ ~clientPanicked
  /\ progress[d] # <<>>
  /\ \A i \in DOMAIN received[d] : ~Terminal(received[d][i])
  /\ received' = [received EXCEPT ![d] = Append(@, Head(progress[d]))]
  /\ progress' = [progress EXCEPT ![d] = Tail(@)]
  /\ UNCHANGED <<holder, dpos, files, filesFetched, progClosed, clientPanicked, notClient>>

ClientNext ==
  \/ \E d \in DlIds, status \in {0, 202, 303, 403, 404, 500} : Download(d, status)
  \/ \E d \in DlIds : StartDownload(d)
  \/ \E d \in DlIds, ok \in BOOLEAN : MkdirAll(d, ok)
  \/ \E d \in DlIds, outcome \in {"ok", "read", "transport"} : RetrieveFile(d, outcome)
  \/ \E d \in DlIds : MakeProgress(d)
  \/ \E d \in DlIds, ok \in BOOLEAN, last \in BOOLEAN : SaveFile(d, ok, last)
  \/ \E d \in DlIds : SendFinal(d)
  \/ \E d \in DlIds : ReleaseDownload(d)
  \/ \E d \in DlIds : SendDone(d)
  \/ \E d \in DlIds : CloseProgress(d)
  \/ \E d \in DlIds : SendError(d)
  \/ \E d \in DlIds : ConsumerReads(d)

ClientSpec == Init /\ [][ClientNext]_allVars

\* ================================================================= claims
RunningSMs(w) == {t \in TIDs : sm[t].st = "running" /\ sm[t].wid = w}
\* the state machine ended the task as errored: error event, null manifest or
\* ingestion error
ErrExit(r) ==
  /\ r.st = "exited"
  /\ r.got \in {"error", "null"} \/ (r.got = "valid" /\ r.addErr # "nil")
\* the state machine ended the task as completed
DoneExit(r) == r.st = "exited" /\ r.got = "valid" /\ r.addErr = "nil"
\* the dispatcher received a request from `requests` in this step
Pulled == Len(reqLog') = Len(reqLog) + 1
LastReq(log) == log[Len(log)]
\* the state machine of task t returned in this step after receiving `got`
Returned(t, got) == sm[t].st = "running" /\ sm'[t].st = "exited" /\ sm'[t].got = got
\* the tasks row of hash h belongs to a task restored at the last start
RestoredRow(h) ==
  /\ tasks[h].TID # 0
  /\ \/ atLog[tasks[h].TID].restored
     \/ \E k \in DOMAIN activeTaskChan :
          activeTaskChan[k].restored /\ activeTaskChan[k].id = tasks[h].TID

\* C1: at every instant at most one task per SDHash has been sent a payload
\* and has had no terminal event.
C1_Uniqueness ==
  \A h \in SDHashes : Cardinality({t \in TIDs : live[t] /\ dispatched[t] = h}) <= 1

\* C2: whenever the lookup for a candidate received from `requests` returns a
\* row (err = nil), the dispatcher rejects that candidate exactly once, sends
\* no payload and spawns nothing, and stays in the request loop with the same
\* ActiveTask to receive the next candidate.
C2_DuplicateRejected ==
  [][(Pulled /\ err' = "nil") =>
       /\ LastReq(reqLog').rejects = 1
       /\ LastReq(reqLog').sends = 0
       /\ tasks[LastReq(reqLog').sd].TID # 0
       /\ UNCHANGED <<tasks, atLog, dispatched, sm, cur, dpc>>
       /\ dpc = "pull"]_vars

\* C2 witness: two back-to-back requests of one SDHash, the first sent, the
\* second rejected on a lookup that returned the row.
C2_Witness ==
  \E i \in DOMAIN reqLog :
    /\ i + 1 = Len(reqLog)
    /\ reqLog[i].sd = reqLog[i + 1].sd
    /\ reqLog[i].sends = 1 /\ reqLog[i + 1].rejects = 1
    /\ err = "nil" /\ dpc = "pull"

\* C3: every request received from `requests` is either rejected once or sent
\* in one payload to one task (never both, never dropped, no two requests to
\* the same task), and every ActiveTask received from activeTaskChan has got
\* exactly one SendPayload and one spawned state machine once the dispatcher
\* has finished serving it (none while it still waits for a request).
C3_ExactlyOneDispatch ==
  /\ \A i \in DOMAIN reqLog :
       /\ reqLog[i].rejects + reqLog[i].sends = 1
       /\ reqLog[i].rejects = 1 => reqLog[i].tid = 0
       /\ reqLog[i].sends = 1 =>
            /\ reqLog[i].tid \in TIDs
            /\ dispatched[reqLog[i].tid] = reqLog[i].sd
            /\ \A j \in DOMAIN reqLog : reqLog[j].tid = reqLog[i].tid => j = i
  /\ \A t \in TIDs :
       IF atLog[t].taken /\ ~(dpc = "pull" /\ cur.id = t)
       THEN atLog[t].sends = 1 /\ atLog[t].spawns = 1 /\ sm[t].st # "none"
       ELSE atLog[t].sends = 0 /\ atLog[t].spawns = 0 /\ sm[t].st = "none"

\* C3 witness: the dispatcher is back at its select after rejecting one
\* request and sending another.
C3_Witness ==
  /\ dpc = "select"
  /\ \E i, j \in DOMAIN reqLog : reqLog[i].rejects = 1 /\ reqLog[j].sends = 1

\* C4: after a restart, while the row of a restored task is still in the Task
\* Queue, every request of its SDHash is rejected and the only payload sent
\* for that SDHash is the stored one, to the restored task itself.
C4_RestorationIdempotence ==
  [][\A h \in SDHashes : RestoredRow(h) =>
       /\ (Pulled /\ LastReq(reqLog').sd = h) => LastReq(reqLog').rejects = 1
       /\ \A t \in TIDs :
            (atLog'[t].sends > atLog[t].sends /\ dispatched'[t] = h)
              => t = tasks[h].TID]_vars

\* C5: a success event with a null manifest increments the worker's errors
\* counter by one, leaves the done counters and the library untouched, calls
\* AddRemoteStream not at all, and ends the state machine.
C5_MissingManifest ==
  [][\A t \in TIDs : Returned(t, "null") =>
       /\ errs' = Inc(errs, sm[t].wid)
       /\ done' = done
       /\ videos' = videos
       /\ addCalls' = addCalls]_vars

\* C5 witness: a state machine has returned on a null manifest.
C5_Witness ==
  \E t \in TIDs :
    /\ sm[t].st = "exited" /\ sm[t].got = "null"
    /\ errs[sm[t].wid] >= 1
    /\ videos[dispatched[t]].TID = 0

\* C6: in every run, AddRemoteStream has been called exactly once for a task
\* whose state machine returned on a success with a manifest and never
\* otherwise; the done counter of a worker counts exactly its tasks whose call
\* succeeded and its errors counter exactly its tasks ended by an error event,
\* a null manifest or an ingestion error.
C6_TerminalAccounting ==
  /\ \A w \in Workers :
       /\ errs[w] = Cardinality({t \in TIDs : sm[t].wid = w /\ ErrExit(sm[t])})
       /\ done[w] = Cardinality({t \in TIDs : sm[t].wid = w /\ DoneExit(sm[t])})
  /\ \A t \in TIDs :
       addCalls[t] = IF sm[t].st = "exited" /\ sm[t].got = "valid" THEN 1 ELSE 0

\* C6 witness: one task completed and another ended on an ingestion error.
C6_Witness ==
  \E t1, t2 \in TIDs :
    /\ DoneExit(sm[t1])
    /\ sm[t2].st = "exited" /\ sm[t2].got = "valid" /\ sm[t2].addErr # "nil"

\* C7: at every instant the running gauge of a worker equals the number of
\* state machines running for that worker.
C7_RunningGauge ==
  \A w \in Workers : running[w] = Cardinality(RunningSMs(w))

\* C8: once stopChan is closed the dispatcher calls Reject() on no request.
C8_StopWithoutReject ==
  [][stopped => (Pulled => LastReq(reqLog').rejects = 0)]_vars

\* C9: a state machine returns on stopChan only when stopChan is closed, and
\* that return changes neither the errors nor the done counters, calls
\* AddRemoteStream not at all and leaves the Task Queue and the library as
\* they are.
C9_Abandonment ==
  [][\A t \in TIDs : Returned(t, "stop") =>
       /\ stopped
       /\ UNCHANGED <<errs, done, addCalls, videos, tasks>>]_vars

\* C9 witness: a state machine has abandoned a task whose row is still in the
\* Task Queue.
C9_Witness ==
  \E t \in TIDs :
    /\ sm[t].st = "exited" /\ sm[t].got = "stop"
    /\ tasks[dispatched[t]].TID = t

\* C10: once the state machine of a task has returned after a success with a
\* manifest, the library holds a Video row for the task's SDHash.
C10_AtLeastOnceCompletion ==
  \A t \in TIDs :
    (sm[t].st = "exited" /\ sm[t].got = "valid") => videos[dispatched[t]].TID # 0

\* C11: AddRemoteStream for an SDHash that already has a row leaves the videos
\* table exactly as it was, with one row for that SDHash; with a resolvable
\* storage it returns nil when the manifest equals the stored one (up to the
\* server-stamped TranscodedAt) and ErrDuplicateStream when it differs.
C11_IdempotentInsert ==
  [][(libRet'.op = "AddRemoteStream" /\ VideosOf(videoTable, libRet'.sd) # {}) =>
       /\ videoTable' = videoTable
       /\ Cardinality(VideosOf(videoTable', libRet'.sd)) = 1
       /\ libRet'.rs.RemoteStorage = ConfiguredStorage =>
            libRet'.err =
              IF SameManifest(Unmarshal(VideoRow(videoTable, libRet'.sd).Manifest),
                              libRet'.rs.Manifest)
              THEN "nil" ELSE "ErrDuplicateStream"]_libV

\* C11 witness: a second AddRemoteStream succeeded on a row that was already
\* read, for a stream whose TranscodedAt is not the one the server stamped.
C11_Witness ==
  /\ libRet.op = "AddRemoteStream" /\ libRet.err = "nil"
  /\ VideoRow(videoTable, libRet.sd).AccessCount > 0
  /\ Unmarshal(VideoRow(videoTable, libRet.sd).Manifest).TranscodedAt
       # libRet.rs.Manifest.TranscodedAt

\* C12: a successful GetVideo returns a Video whose decoded manifest equals,
\* in every field except TranscodedAt, the manifest of the stream last added
\* with success for that SDHash.
C12_ManifestRoundTrip ==
  (libRet.op = "GetVideo" /\ libRet.err = "nil") =>
    /\ AddedOf(added, libRet.sd) # {}
    /\ libRet.video.SDHash = libRet.sd
    /\ \A rs \in AddedOf(added, libRet.sd) :
         ZeroTranscodedAt(Unmarshal(libRet.video.Manifest)) = ZeroTranscodedAt(rs.Manifest)

\* C12 witness: GetVideo returned a manifest that differs from the added one
\* in TranscodedAt alone.
C12_Witness ==
  /\ libRet.op = "GetVideo" /\ libRet.err = "nil"
  /\ \E rs \in AddedOf(added, libRet.sd) :
       /\ Unmarshal(libRet.video.Manifest) # rs.Manifest
       /\ SameManifest(Unmarshal(libRet.video.Manifest), rs.Manifest)

\* C13: the AccessCount of every Video row equals the number of successful
\* GetVideo calls made for its SDHash (none for an SDHash without a row), and
\* a successful GetVideo returns the count including itself.
C13_AccessCount ==
  /\ \A h \in SDHashes :
       /\ VideosOf(videoTable, h) = {} => gets[h] = 0
       /\ \A v \in VideosOf(videoTable, h) : v.AccessCount = gets[h]
  /\ (libRet.op = "GetVideo" /\ libRet.err = "nil") =>
       libRet.video.AccessCount = gets[libRet.sd] /\ gets[libRet.sd] >= 1

\* C13 witness: a row read twice, then asked for its URL.
C13_Witness ==
  /\ libRet.op = "GetVideoURL" /\ libRet.err = "nil"
  /\ gets[libRet.sd] = 2
  /\ VideoRow(videoTable, libRet.sd).AccessCount = 2

\* C14: GetVideoURL returns ErrStreamNotFound and an empty URL for an SDHash
\* never ingested, and otherwise "remote://" + RemoteStorage + "/" +
\* Manifest.TID + "/" of the stream added with success.
C14_VideoURL ==
  libRet.op = "GetVideoURL" =>
    IF AddedOf(added, libRet.sd) = {}
    THEN libRet.err = "ErrStreamNotFound" /\ libRet.url = ""
    ELSE /\ libRet.err = "nil"
         /\ \A rs \in AddedOf(added, libRet.sd) :
              libRet.url = "remote://" \o rs.RemoteStorage \o "/" \o rs.Manifest.TID \o "/"

\* C14 witness: the URL of a stream on storage1 whose TID is abc123.
C14_Witness ==
  /\ libRet.op = "GetVideoURL"
  /\ libRet.url = "remote://storage1/abc123/"

\* C15: a POST for a channel the network does not know answers 400 "channel
\* not found", a POST for a channel already in the table answers 400 with the
\* unique-constraint message, and both leave the channels table as it was; a
\* POST for a new resolvable channel answers 201 and appends its one row.
C15_AdminChannel ==
  [][adminResp' # adminResp \/ channelTable' # channelTable =>
       LET c == Resolve(adminResp'.handle)
           known == \E i \in DOMAIN channelTable : channelTable[i].URL = c.URL
       IN IF c = NoClaim
          THEN /\ adminResp'.status = 400 /\ adminResp'.body = "channel not found"
               /\ channelTable' = channelTable
          ELSE IF known
          THEN /\ adminResp'.status = 400
               /\ adminResp'.body = "duplicate key value violates unique constraint"
               /\ channelTable' = channelTable
          ELSE /\ adminResp'.status = 201
               /\ Len(channelTable') = Len(channelTable) + 1
               /\ SubSeq(channelTable', 1, Len(channelTable)) = channelTable
               /\ channelTable'[Len(channelTable')].URL = c.URL
               /\ channelTable'[Len(channelTable')].ClaimID = c.ClaimID]_adminV

\* C15 witness: the channel of the test is in the table once, first of two,
\* and its second POST was answered 400.
C15_Witness ==
  /\ adminResp.status = 400 /\ adminResp.handle = "@specialoperationstest:3"
  /\ Len(channelTable) = 2
  /\ channelTable[1].URL = "lbry://@specialoperationstest#3"
  /\ Cardinality({i \in DOMAIN channelTable :
                    channelTable[i].ClaimID = "395b0f23dcd07212c3e956b697ba5ba89578ca54"}) = 1

\* the dispatcher received the ActiveTask at the head of activeTaskChan in
\* this step
Received(at) ==
  /\ activeTaskChan # <<>> /\ at = Head(activeTaskChan)
  /\ ~atLog[at.id].taken /\ atLog'[at.id].taken

\* C17: when the dispatcher receives an ActiveTask with restored = true and
\* a non-null exPayload, in that step it sends the stored payload to the task
\* once, spawns its state machine once, receives nothing from `requests`,
\* rejects nothing, writes no row and does not enter the request loop.
C17_RestoredTask ==
  [][\A k \in DOMAIN activeTaskChan :
       (Received(activeTaskChan[k]) /\ IsRestored(activeTaskChan[k])) =>
         LET at == activeTaskChan[k] IN
         /\ atLog'[at.id].sends = 1 /\ atLog'[at.id].spawns = 1
         /\ dispatched'[at.id] = at.exPayload.SDHash
         /\ at.exPayload = MsgTranscodingTask(dispatched'[at.id], at.id)
         /\ sm'[at.id].st = "running" /\ sm'[at.id].wid = at.workerID
         /\ reqLog' = reqLog
         /\ tasks' = tasks
         /\ dpc' = "select" /\ cur' = NoTask]_vars

\* C17 witness: a task that was sent a request before the restart is running
\* again as a restored task, its row still in the Task Queue.
C17_Witness ==
  \E t \in TIDs :
    /\ atLog[t].restored /\ atLog[t].sends = 1 /\ sm[t].st = "running"
    /\ \E i \in DOMAIN reqLog : reqLog[i].tid = t /\ reqLog[i].sd = dispatched[t]
    /\ tasks[dispatched[t]].TID = t

\* the requests received and not rejected
NotRejected == {i \in DOMAIN reqLog : reqLog[i].rejects = 0}
\* the non-restored ActiveTasks the dispatcher has received: those it has
\* given a payload and the one it is serving
ReceivedFresh ==
  {t \in TIDs : dispatched[t] # ""} \cup (IF dpc = "pull" THEN {cur.id} ELSE {})

\* C20: the dispatcher receives from `requests` only while it serves a
\* non-restored ActiveTask that has no payload yet, a request it does not
\* reject ends the serving of that ActiveTask, and at every instant the
\* requests received and not rejected are at most as many as the non-restored
\* ActiveTasks received.
C20_Backpressure ==
  /\ [](Cardinality(NotRejected) <= Cardinality(ReceivedFresh))
  /\ [][Pulled =>
          /\ dpc = "pull" /\ cur.id \in TIDs /\ ~IsRestored(cur)
          /\ atLog[cur.id].taken /\ atLog[cur.id].sends = 0
          /\ LastReq(reqLog').rejects = 0 =>
               /\ LastReq(reqLog').tid = cur.id
               /\ dpc' = "select" /\ cur' = NoTask]_vars

\* C20 witness: two ActiveTasks received, one request sent, one rejected, and
\* the dispatcher waiting in the request loop for the second task.
C20_Witness ==
  /\ dpc = "pull" /\ Cardinality(ReceivedFresh) = 2
  /\ Cardinality(NotRejected) = 1 /\ Len(reqLog) = 2

\* C18: a progress event and a silence timeout each leave the state machine
\* running and every metric as it is; the warning is logged only when the
\* timer has run its full period since the last event, and after either event
\* the timer starts again from zero.
C18_NonFatalSilence ==
  [][/\ progressSeen' # progressSeen =>
          /\ loopSt = "running" /\ loopSt' = "running"
          /\ taskMetrics' = taskMetrics
          /\ silence' = 0
     /\ warnings' # warnings =>
          /\ loopSt = "running" /\ loopSt' = "running"
          /\ taskMetrics' = taskMetrics
          /\ silence = SilenceTimeout /\ silence' = 0]_timerV

\* C18 witness: the state machine is still running, its metrics untouched,
\* after as many warnings and progress events as the model lets happen, in the
\* middle of a new silence period.
C18_Witness ==
  /\ loopSt = "running"
  /\ warnings = MaxEvents /\ progressSeen = MaxEvents
  /\ taskMetrics = [running |-> 1, errs |-> 0, done |-> 0]
  /\ silence > 0 /\ silence < SilenceTimeout

\* C16: when Enqueue fails with ErrDuplicateTask, DispatchNextTask rejects the
\* candidate (Reject()), goes on to receive the next request, and returns the
\* duplicate error neither to its caller nor from PutLoad.
C16_DuplicateTask ==
  [][(Len(condLog') = Len(condLog) + 1
        /\ condLog'[Len(condLog')].err = "ErrDuplicateTask") =>
       /\ condLog'[Len(condLog')].rejected
       /\ cpc' = "dispatch" /\ left' = left
       /\ dispErr' # "ErrDuplicateTask" /\ putErr' # "ErrDuplicateTask"]_condV

\* C19: every result taken off the result list has its Video row in the
\* library, or is still on the list for a later attempt.
C19_AckAfterCommit ==
  \A h \in popped :
    \/ VideosOf(videoTable, h) # {}
    \/ \E i \in DOMAIN results : results[i] = h

\* DispatchNextTask received a request in this step
Took == Len(condLog') = Len(condLog) + 1
LastTaken(log) == log[Len(log)]

\* C21: a PutLoad call enqueues at most as many tasks as the spare capacity it
\* measured; a request skipped as duplicate leaves the remaining calls, the
\* count of the cycle and RequestsPublished as they are; RequestsPublished
\* advances by one with every task enqueued and counts exactly those; and a
\* dispatch error ends the cycle at once, returned by PutLoad, with nothing
\* enqueued or counted.
C21_LoadCap ==
  /\ [](/\ cycle.enq <= cycle.spares
        /\ cpc = "dispatch" => left >= 1 /\ cycle.enq + left = cycle.spares
        /\ published = Cardinality({i \in DOMAIN condLog : condLog[i].err = "nil"}))
  /\ [][/\ (cpc = "idle" /\ cpc' = "dispatch") =>
            /\ cycle' = [spares |-> Spares(asynqQ), enq |-> 0]
            /\ left' = Spares(asynqQ) /\ published' = published
        /\ Took =>
            LET r == LastTaken(condLog') IN
            IF r.err = "ErrDuplicateTask"
            THEN UNCHANGED <<left, cycle, published, asynqQ, cpc>>
            ELSE IF r.err = "nil"
            THEN /\ published' = published + 1
                 /\ cycle' = [cycle EXCEPT !.enq = @ + 1]
                 /\ left' = left - 1
                 /\ asynqQ[r.sd] = "none" /\ asynqQ' = [asynqQ EXCEPT ![r.sd] = "pending"]
            ELSE /\ cpc' = "idle" /\ putErr' = r.err
                 /\ UNCHANGED <<published, cycle, asynqQ>>]_condV

\* C21 witness: a cycle of two spares in which one task was enqueued and one
\* duplicate skipped, with one call still to make.
C21_Witness ==
  /\ cpc = "dispatch" /\ cycle = [spares |-> 2, enq |-> 1] /\ left = 1
  /\ published = 1
  /\ Len(condLog) = 2 /\ condLog[2].err = "ErrDuplicateTask"

\* C26: every request DispatchNextTask received from `incoming` was enqueued,
\* or found to duplicate an enqueued task, or given back to its origin.
C26_NoRequestLost ==
  \A i \in DOMAIN condLog :
    \/ condLog[i].err \in {"nil", "ErrDuplicateTask"}
    \/ condLog[i].rejected

\* C27: once Stop has closed stopChan, both goroutines of Start terminate.
C27_Shutdown == cStopped ~> (cpc = "stopped" /\ rpc = "done")

\* C23: the silence warning is logged when exactly the configured
\* request_timeout_base has passed since the last event.
C23_ConfiguredSilence ==
  [][warnings' # warnings => silence = TRequestTimeoutBase]_timerV

\* at.SendPayload was called on task t in this step
SentTo(t) == atLog'[t].sends = atLog[t].sends + 1

\* C22 as stated: the payloads sent and the requests received and not
\* rejected advance together, one payload for one request with the
\* request's SDHash, so the two sequences are the same at every instant.
C22_ProducerOrder ==
  [][/\ \A t \in TIDs : SentTo(t) =>
            /\ Pulled /\ LastReq(reqLog').rejects = 0
            /\ LastReq(reqLog').tid = t /\ LastReq(reqLog').sd = dispatched'[t]
     /\ (Pulled /\ LastReq(reqLog').rejects = 0) =>
            \E t \in TIDs : SentTo(t) /\ dispatched'[t] = LastReq(reqLog').sd
     /\ Pulled \/ reqLog' = reqLog]_vars

\* C22, amended: the payloads sent to tasks that are not restored and the
\* requests received and not rejected advance together, one payload for one
\* request with the request's SDHash, in the step that receives it; the
\* payload of a restored task is sent for no request.
C22_ProducerOrderNew ==
  [][/\ \A t \in TIDs : SentTo(t) =>
            IF atLog'[t].restored
            THEN ~Pulled
            ELSE /\ Pulled /\ LastReq(reqLog').rejects = 0
                 /\ LastReq(reqLog').tid = t /\ LastReq(reqLog').sd = dispatched'[t]
     /\ (Pulled /\ LastReq(reqLog').rejects = 0) =>
            \E t \in TIDs : SentTo(t) /\ ~atLog'[t].restored
                             /\ dispatched'[t] = LastReq(reqLog').sd
     /\ Pulled \/ reqLog' = reqLog]_vars

\* C22 witness: a request of h1 was sent, the process restarted and the
\* stored payload was sent again to the restored task, then a request of h2
\* was sent to a new task.
C22_Witness ==
  /\ Len(reqLog) = 2 /\ reqLog[1].sd = "h1" /\ reqLog[2].sd = "h2"
  /\ reqLog[1].sends = 1 /\ reqLog[2].sends = 1
  /\ atLog[reqLog[1].tid].restored /\ atLog[reqLog[1].tid].sends = 1
  /\ ~atLog[reqLog[2].tid].restored /\ atLog[reqLog[2].tid].sends = 1
  /\ dispatched[reqLog[1].tid] = "h1" /\ dispatched[reqLog[2].tid] = "h2"

\* C25: the dispatcher sends a payload for a request only on a lookup that
\* reported "no row", and never for an SDHash that has a row in the Task Queue.
C25_LookupFailure ==
  [][(Pulled /\ LastReq(reqLog').sends = 1) =>
       /\ err' = "notfound"
       /\ tasks[LastReq(reqLog').sd].TID = 0]_vars

\* C24: stopChan is closed at most once, and no goroutine panics closing it.
C24_SingleClose == stopCloses <= 1 /\ ~panicked

\* every event download d has sent, in order: those received and the one buffered
Sent(d) == received[d] \o progress[d]
\* startDownload of download d has returned
StartDownloadReturned(d) == dpos[d] \in {"error", "returned"}

\* C28: once startDownload has returned, on any path, the download no longer
\* holds the in-progress marker it acquired.
C28_LockRelease ==
  \A d \in DlIds : StartDownloadReturned(d) => holder # d

\* the goroutine of download d was started
Started(d) == dpos[d] \notin {"new", "refused"}
\* the goroutine of download d will send nothing more
Over(d) == dpos[d] = "returned" \/ clientPanicked
TerminalAt(d) == {i \in DOMAIN Sent(d) : Terminal(Sent(d)[i])}

\* C29: a started download sends at most one terminal event and nothing after
\* it; a Done event comes right after the Stage 999999 event and is the only
\* event followed by the close of the channel; and when its goroutine is over
\* the download has sent exactly one terminal event, which the consumer has
\* received or finds in the buffer.
C29_ProgressTermination ==
  \A d \in DlIds : Started(d) =>
    /\ Cardinality(TerminalAt(d)) <= 1
    /\ \A i \in TerminalAt(d) : i = Len(Sent(d))
    /\ \A i \in TerminalAt(d) :
         Sent(d)[i].Done => i > 1 /\ Sent(d)[i - 1].Stage = FinalStage
    /\ progClosed[d] => Sent(d) # <<>> /\ Sent(d)[Len(Sent(d))].Done
    /\ Over(d) => Cardinality(TerminalAt(d)) = 1

\* the event reports one retrieved file
IsFileEvent(ev) == ~Terminal(ev) /\ ev.Stage # FinalStage
FileEvents(d) == SelectSeq(Sent(d), IsFileEvent)

\* C30: the k-th per-file event of a download carries Stage k, and the
\* stream's filesFetched equals the number of files retrieved so far.
C30_StageNumbering ==
  \A d \in DlIds :
    /\ \A k \in DOMAIN FileEvents(d) : FileEvents(d)[k].Stage = k
    /\ filesFetched[d] = files[d]

====
